---- MODULE Spec2Model ----
(***************************************************************************)
(* wasmBild: a browser image editor written in Go for WebAssembly.         *)
(*                                                                         *)
(* The model follows the App / JsApp types: the App fields (cnt,           *)
(* sourceImg, resizedImg, transformations, buf), the four DOM callbacks    *)
(* NewJsApp registers, the per-upload FileReader onload callbacks, the     *)
(* main goroutine waiting on jsa.done, and the part of the DOM the code    *)
(* writes (the two <image> src attributes, the sliders, the status text).  *)
(*                                                                         *)
(* Two specifications:                                                     *)
(*   Spec     the running program, driven by DOM events;                   *)
(*   SpecApp  the exported App methods called directly with arbitrary      *)
(*            arguments (Append, Update, NewSourceImgFromString,           *)
(*            PreviewImg, UpdateImgSrcById).                               *)
(*                                                                         *)
(* Slider values are the whole numbers among the float64 values the range  *)
(* inputs can report.  Images are terms: the decoded file, its bounds, and *)
(* the sequence of library calls (resize, brightness, ...) applied to it,  *)
(* so that two images are equal exactly when they were computed by the     *)
(* same calls in the same order.                                           *)
(***************************************************************************)
EXTENDS Integers, Sequences, FiniteSets, TLC

VARIABLES
    pc,                \* the program: "running" (main waits for jsa.done), "closing"
                       \* (main woken, the callback goroutine still serving events),
                       \* "blocked" (the callback goroutine blocked in a send on
                       \* jsa.done), "exited", "panicked"
    cnt,               \* App.cnt
    sourceImg,         \* App.sourceImg
    resizedImg,        \* App.resizedImg
    transformations,   \* App.transformations
    buf,               \* JsApp.buf
    out,               \* the image the last PreviewImg call returned
    listeners,         \* the js.Callback values created and not yet closed
    readers,           \* FileReaders whose load event can still reach the program
    nUploads,          \* number of FileReaders (and onload callbacks) created
    chosen,            \* files[0] of <input id="uploader">: the file chosen last
    previewSrc,        \* src of <image id="previewImg">
    targetSrc,         \* src of <image id="targetImg">
    sliders,           \* the controls inserted into <div id="effects">
    status,            \* innerText of the status element
    mounted,           \* the markup App.Render inserted is still in the document
    lastOp             \* history: the operation that produced this state

vars == <<pc, cnt, sourceImg, resizedImg, transformations, buf, out, listeners,
          readers, nUploads, chosen, previewSrc, targetSrc, sliders, status, mounted,
          lastOp>>

(***************************************************************************)
(* Bounds of the model.                                                    *)
(***************************************************************************)
MaxEffects == 2
MaxUploads == 2

(***************************************************************************)
(* Program constants.                                                      *)
(***************************************************************************)
jpegPrefix == "data:image/jpeg;base64,"
pngPrefix == "data:image/png;base64,"
dstWidth == 200
EffectMin == -2
EffectMax == 2
DefaultValue == 0
JpegQuality == 90

\* App.Effects as NewApp builds it: the registered kinds, in order.
Effects ==
    << [Name |-> "contrast",       Min |-> EffectMin, Max |-> EffectMax],
       [Name |-> "brightness",     Min |-> EffectMin, Max |-> EffectMax],
       [Name |-> "edge-detection", Min |-> EffectMin, Max |-> EffectMax] >>

\* The <option> ids App.Render puts into the effect selector.
SelectorOptions == { Effects[i].Name : i \in 1..Len(Effects) }

(***************************************************************************)
(* Strings (package strings, strconv).                                     *)
(***************************************************************************)
\* A faulty variant: only the lengths are compared.
HasPrefixLengthOnly(s, prefix) == Len(s) >= Len(prefix)

HasPrefix(s, prefix) ==
    Len(s) >= Len(prefix) /\ SubSeq(s, 1, Len(prefix)) = prefix

TrimPrefix(s, prefix) ==
    IF HasPrefix(s, prefix) THEN SubSeq(s, Len(prefix) + 1, Len(s)) ELSE s

Digit(d) ==
    CASE d = 0 -> "0" [] d = 1 -> "1" [] d = 2 -> "2" [] d = 3 -> "3"
      [] d = 4 -> "4" [] d = 5 -> "5" [] d = 6 -> "6" [] d = 7 -> "7"
      [] d = 8 -> "8" [] d = 9 -> "9"

RECURSIVE Itoa(_)
Itoa(n) ==
    IF n < 0 THEN "-" \o Itoa(-n)
    ELSE IF n < 10 THEN Digit(n)
    ELSE Itoa(n \div 10) \o Digit(n % 10)

(***************************************************************************)
(* Images and the external image library (image, bild).                    *)
(***************************************************************************)
\* The nil image.Image.
NoImage == [base |-> "", w |-> 0, h |-> 0, ops |-> <<>>]

\* base64.NewDecoder + image.Decode on the text after the prefix: the files
\* of the model.  Any other text does not decode (nil image, error).
Decode(payload) ==
    CASE payload = "A" -> [img |-> [base |-> "A", w |-> 400, h |-> 300, ops |-> <<>>], err |-> FALSE]
      [] payload = "C" -> [img |-> [base |-> "C", w |-> 25,  h |-> 7,   ops |-> <<>>], err |-> FALSE]
      [] OTHER         -> [img |-> NoImage, err |-> TRUE]

\* transform.Resize(img, width, height, transform.Linear)
Resize(img, width, height) ==
    [base |-> img.base, w |-> width, h |-> height,
     ops |-> Append(img.ops, <<"resize", width, height>>)]

\* adjust.Brightness(img, change)
Brightness(img, change) == [img EXCEPT !.ops = Append(@, <<"brightness", change>>)]

\* adjust.Contrast(img, change)
Contrast(img, change) == [img EXCEPT !.ops = Append(@, <<"contrast", change>>)]

\* effect.EdgeDetection(img, radius)
EdgeDetection(img, radius) == [img EXCEPT !.ops = Append(@, <<"edge-detection", radius>>)]

\* imgio.JPEGEncoder(90) writing one image: the bytes appended to the buffer.
JPEGEncode(img) == [quality |-> JpegQuality, img |-> img]

\* jpegPrefix + base64.StdEncoding.EncodeToString(bytes)
DataURL(bytes) == [prefix |-> jpegPrefix, data |-> bytes]

\* An <image> element whose src was never set.
NoSrc == [prefix |-> "", data |-> <<>>]

(***************************************************************************)
(* float64 arithmetic (IEEE 754 binary64, round to nearest, ties to even)  *)
(* on the positive values NewSourceImgFromString computes with.  A value   *)
(* is (i + f[1]/L + f[2]/L^2 + f[3]/L^3 + f[4]/L^4) * 2^e with L = 2^13:   *)
(* an integer part and 52 fraction bits in four limbs of 13 bits.  A       *)
(* float64 has 53 significant bits: i = 1 and all 52 fraction bits, or a   *)
(* longer i and as many fraction bits fewer.                               *)
(***************************************************************************)
Limb == 2^13

RECURSIVE Normalize(_, _, _)
Normalize(num, den, e) ==
    IF num < den THEN Normalize(2 * num, den, e - 1)
    ELSE IF num >= 2 * den THEN Normalize(num, 2 * den, e + 1)
    ELSE [num |-> num, den |-> den, e |-> e]

RECURSIVE BitLen(_)
BitLen(n) == IF n < 2 THEN 1 ELSE 1 + BitLen(n \div 2)

\* v plus u units of the last limb, carried upwards.
AddUlp(v, u) ==
    LET t4 == v.f[4] + u
        t3 == v.f[3] + (t4 \div Limb)
        t2 == v.f[2] + (t3 \div Limb)
        t1 == v.f[1] + (t2 \div Limb)
    IN [i |-> v.i + (t1 \div Limb),
        f |-> <<t1 % Limb, t2 % Limb, t3 % Limb, t4 % Limb>>,
        e |-> v.e]

\* float64(a) / float64(b) for integers a, b > 0: the quotient to 52 fraction
\* bits by long division, rounded by the remainder.
F64Div(a, b) ==
    LET n == Normalize(a, b, 0)
        r0 == n.num - n.den
        q1 == (r0 * Limb) \div n.den
        r1 == (r0 * Limb) % n.den
        q2 == (r1 * Limb) \div n.den
        r2 == (r1 * Limb) % n.den
        q3 == (r2 * Limb) \div n.den
        r3 == (r2 * Limb) % n.den
        q4 == (r3 * Limb) \div n.den
        r4 == (r3 * Limb) % n.den
        q == [i |-> 1, f |-> <<q1, q2, q3, q4>>, e |-> n.e]
    IN IF 2 * r4 > n.den \/ (2 * r4 = n.den /\ q4 % 2 = 1) THEN AddUlp(q, 1) ELSE q

\* v * float64(k) for an integer k > 0: the exact product, then the low bits
\* that exceed 53 significant bits rounded away.
F64MulInt(v, k) ==
    LET t4 == v.f[4] * k
        t3 == v.f[3] * k + (t4 \div Limb)
        t2 == v.f[2] * k + (t3 \div Limb)
        t1 == v.f[1] * k + (t2 \div Limb)
        p == [i |-> v.i * k + (t1 \div Limb),
              f |-> <<t1 % Limb, t2 % Limb, t3 % Limb, t4 % Limb>>,
              e |-> v.e]
        unit == 2^(BitLen(p.i) - 1)
        cut == p.f[4] % unit
        kept == [p EXCEPT !.f[4] = @ - cut]
        odd == (p.f[4] \div unit) % 2 = 1
    IN IF 2 * cut > unit \/ (2 * cut = unit /\ odd) THEN AddUlp(kept, unit) ELSE kept

\* The same value with the exponent brought down to 0: the integer part and
\* the limbs doubled, with the carries, once for every unit of the exponent.
RECURSIVE ScaleUp(_)
ScaleUp(v) ==
    IF v.e <= 0 THEN v
    ELSE LET t4 == 2 * v.f[4]
             t3 == 2 * v.f[3] + (t4 \div Limb)
             t2 == 2 * v.f[2] + (t3 \div Limb)
             t1 == 2 * v.f[1] + (t2 \div Limb)
         IN ScaleUp([i |-> 2 * v.i + (t1 \div Limb),
                     f |-> <<t1 % Limb, t2 % Limb, t3 % Limb, t4 % Limb>>,
                     e |-> v.e - 1])

\* int(math.Ceil(v)) for a positive v below 2^31
CeilInt(v) ==
    LET u == ScaleUp(v)
        scale == 2^(-u.e)
        whole == u.i \div scale
        fraction == (u.i % scale) # 0 \/ u.f # <<0, 0, 0, 0>>
    IN IF fraction THEN whole + 1 ELSE whole

\* ratio := float64(srcHeight) / float64(srcWidth)
\* dstHeight := int(math.Ceil(ratio * float64(dstWidth)))
\* for the bounds of a decoded image: srcWidth, srcHeight > 0.
DstHeight(srcWidth, srcHeight) ==
    CeilInt(F64MulInt(F64Div(srcHeight, srcWidth), dstWidth))

(***************************************************************************)
(* Effect and Transformation.                                              *)
(***************************************************************************)
\* The nil effectFn.
NilFn == [lib |-> "nil", arg |-> 0]

\* Effect.GetEffectFn(values...): the closure returned, by the library
\* function it calls and the argument values[0] it passes.
GetEffectFn(Name, values) ==
    CASE Name = "brightness"     -> [lib |-> "adjust.Brightness",    arg |-> values[1]]
      [] Name = "contrast"       -> [lib |-> "adjust.Contrast",      arg |-> values[1]]
      [] Name = "edge-detection" -> [lib |-> "effect.EdgeDetection", arg |-> values[1]]
      [] OTHER                   -> NilFn

\* Calling a non-nil effectFn on an image.
CallEffectFn(fn, img) ==
    CASE fn.lib = "adjust.Brightness"    -> Brightness(img, fn.arg)
      [] fn.lib = "adjust.Contrast"      -> Contrast(img, fn.arg)
      [] fn.lib = "effect.EdgeDetection" -> EdgeDetection(img, fn.arg)

\* Transformation.Transform: t.Fn(t.Values...), Fn being the GetEffectFn
\* method value of the Effect named t.Fn.
Transform(t) == GetEffectFn(t.Fn, t.Values)

\* Transformation.Render: the control the template describes.
Render(t) == [label |-> t.Name, min |-> t.Min, max |-> t.Max, value |-> 0, id |-> t.Id]

(***************************************************************************)
(* App.                                                                    *)
(***************************************************************************)
\* A faulty variant: the new transformation is put in front of the others.
AppPrepend(ts, t) == <<t>> \o ts

\* App.Append
AppAppend(ts, t) == Append(ts, t)

\* A faulty variant: an id that matches nothing updates the first transformation.
AppUpdateOrFirst(ts, Id, values) ==
    LET hits == { i \in 1..Len(ts) : ts[i].Id = Id }
    IN IF ts = <<>> THEN ts
       ELSE LET i == IF hits = {} THEN 1 ELSE CHOOSE j \in hits : \A k \in hits : j <= k
            IN [ts EXCEPT ![i].Values = values]

\* A faulty variant: every transformation of the matching one's kind gets the values.
AppUpdateByKind(ts, Id, values) ==
    LET hits == { i \in 1..Len(ts) : ts[i].Id = Id }
    IN IF hits = {} THEN ts
       ELSE LET i == CHOOSE j \in hits : \A k \in hits : j <= k
            IN [j \in 1..Len(ts) |->
                   IF ts[j].Name = ts[i].Name THEN [ts[j] EXCEPT !.Values = values]
                   ELSE ts[j]]

\* App.Update: the first transformation whose Id matches gets the values.
AppUpdate(ts, Id, values) ==
    LET hits == { i \in 1..Len(ts) : ts[i].Id = Id }
    IN IF hits = {} THEN ts
       ELSE LET i == CHOOSE j \in hits : \A k \in hits : j <= k
            IN [ts EXCEPT ![i].Values = values]

\* App.NewSourceImgFromString: the two image fields after the call.
NewSourceImgFromString(src, res, simg) ==
    LET recognized == HasPrefix(simg, jpegPrefix) \/ HasPrefix(simg, pngPrefix)
        payload == IF HasPrefix(simg, jpegPrefix) THEN TrimPrefix(simg, jpegPrefix)
                   ELSE TrimPrefix(simg, pngPrefix)
        d == Decode(payload)
    IN IF ~recognized THEN [sourceImg |-> src, resizedImg |-> res]
       ELSE IF d.err THEN [sourceImg |-> d.img, resizedImg |-> res]
       ELSE [sourceImg |-> d.img,
             resizedImg |-> Resize(d.img, dstWidth, DstHeight(d.img.w, d.img.h))]

\* A faulty variant: the loop runs over the transformations from the last to the first.
RECURSIVE PreviewLoopReversed(_, _, _)
PreviewLoopReversed(img, ts, i) ==
    IF i > Len(ts) THEN img
    ELSE PreviewLoopReversed(CallEffectFn(Transform(ts[Len(ts) + 1 - i]), img), ts, i + 1)

\* The loop of App.PreviewImg from the i-th transformation on.
RECURSIVE PreviewLoop(_, _, _)
PreviewLoop(img, ts, i) ==
    IF i > Len(ts) THEN img
    ELSE PreviewLoop(CallEffectFn(Transform(ts[i]), img), ts, i + 1)

\* A faulty variant: img starts as the zero value instead of app.resizedImg.
PreviewImgFromNil(res, ts) == PreviewLoop(NoImage, ts, 1)

\* App.PreviewImg, when it returns.
PreviewImg(res, ts) == PreviewLoop(res, ts, 1)

\* App.PreviewImg panics: a nil effectFn is called, or the library is handed
\* the nil image.
PreviewPanics(res, ts) ==
    \/ ts # <<>> /\ res = NoImage
    \/ \E i \in 1..Len(ts) : Transform(ts[i]) = NilFn

(***************************************************************************)
(* JsApp.                                                                  *)
(***************************************************************************)
\* A faulty variant: the buffer is not reset after the src has been set.
UpdateImgSrcByIdNoReset(src, b, img, present) ==
    IF img = NoImage THEN [src |-> src, buf |-> b, panics |-> FALSE]
    ELSE LET written == Append(b, JPEGEncode(img))
         IN IF present THEN [src |-> DataURL(written), buf |-> written, panics |-> FALSE]
            ELSE [src |-> src, buf |-> written, panics |-> TRUE]

\* JsApp.UpdateImgSrcById: the element's src and jsa.buf after the call.
\* When the document has no element of that id, getElementById gives null
\* and the Set on it panics, after the encoding and before the Reset.
UpdateImgSrcById(src, b, img, present) ==
    IF img = NoImage THEN [src |-> src, buf |-> b, panics |-> FALSE]
    ELSE LET written == Append(b, JPEGEncode(img))
         IN IF present THEN [src |-> DataURL(written), buf |-> <<>>, panics |-> FALSE]
            ELSE [src |-> src, buf |-> written, panics |-> TRUE]

\* The callbacks NewJsApp creates and stores in the JsApp.
Callbacks == {"ShutdownCallback", "UploadCallback", "AddEffectCallback", "ChangeEffectsCallback"}

\* The data URLs FileReader.readAsDataURL can deliver for the files of the
\* model: two images, a file that is no image under an image MIME type, and
\* an image of a MIME type the program does not accept.
Files ==
    { jpegPrefix \o "A", pngPrefix \o "C", pngPrefix \o "!",
      "data:image/gif;base64,A" }

\* The value the sliders of the model are moved to (inside min..max).
SliderValues == {EffectMin}

\* The history record: the operation, and the id, value and text it was given.
Op(op, id, value, arg) == [op |-> op, id |-> id, value |-> value, arg |-> arg]

\* NewApp, NewJsApp: the program blocked in main's select.
Init ==
    /\ pc = "running"
    /\ cnt = 0
    /\ sourceImg = NoImage
    /\ resizedImg = NoImage
    /\ transformations = <<>>
    /\ buf = <<>>
    /\ out = NoImage
    /\ listeners = Callbacks
    /\ readers = {}
    /\ nUploads = 0
    /\ chosen = ""
    /\ previewSrc = NoSrc
    /\ targetSrc = NoSrc
    /\ sliders = <<>>
    /\ status = ""
    /\ mounted = TRUE
    /\ lastOp = Op("NewJsApp", "", 0, "")

\* The callback goroutine serves events while the Go program is alive and
\* the goroutine is not blocked: from the start until main, woken by the send
\* on jsa.done, gets to run.  The events still queued when ShutdownCallback
\* returns are served before main runs.
ProgramAlive == pc \in {"running", "closing"}

\* A handler of NewJsApp runs when its callback has not been closed.
Accepts(cb) == ProgramAlive /\ cb \in listeners

\* The js.Callback UploadCallback creates for the n-th FileReader.
OnloadCallback(n) == "onload" \o Itoa(n)

\* UploadCallback: a new FileReader with its own onload callback starts
\* reading the chosen file.  A read started after main has been woken ends
\* only when the program has ended.
UploadCallback(file) ==
    /\ Accepts("UploadCallback")
    /\ nUploads < MaxUploads
    /\ nUploads' = nUploads + 1
    /\ chosen' = IF mounted THEN file ELSE chosen
    /\ listeners' = listeners \cup {OnloadCallback(nUploads + 1)}
    /\ readers' = IF pc = "running"
                  THEN readers \cup {[n |-> nUploads + 1, result |-> file]}
                  ELSE readers
    /\ lastOp' = Op("upload", "", 0, file)
    /\ UNCHANGED <<pc, cnt, sourceImg, resizedImg, transformations, buf, out,
                   previewSrc, targetSrc, sliders, status, mounted>>

\* A faulty variant: a new image starts with a fresh pipeline and counter.
OnLoadFreshPipeline(r) ==
    LET loaded == NewSourceImgFromString(sourceImg, resizedImg, r.result)
        shown == UpdateImgSrcById(previewSrc, buf, loaded.resizedImg, mounted)
        rendered == UpdateImgSrcById(targetSrc, shown.buf, loaded.resizedImg, mounted)
    IN /\ Accepts(OnloadCallback(r.n))
       /\ r \in readers
       /\ readers' = readers \ {r}
       /\ sourceImg' = loaded.sourceImg
       /\ resizedImg' = loaded.resizedImg
       /\ previewSrc' = shown.src
       /\ transformations' = <<>>
       /\ cnt' = 0
       /\ out' = loaded.resizedImg
       /\ targetSrc' = rendered.src
       /\ buf' = rendered.buf
       /\ pc' = IF shown.panics THEN "panicked" ELSE pc
       /\ lastOp' = Op("onload", "", r.n, r.result)
       /\ UNCHANGED <<listeners, nUploads, chosen, sliders, status, mounted>>

\* The onload callback of reader r: load, show the preview, render.
OnLoad(r) ==
    LET loaded == NewSourceImgFromString(sourceImg, resizedImg, r.result)
        shown == UpdateImgSrcById(previewSrc, buf, loaded.resizedImg, mounted)
        panics == PreviewPanics(loaded.resizedImg, transformations)
        img == PreviewImg(loaded.resizedImg, transformations)
        rendered == UpdateImgSrcById(targetSrc, shown.buf, img, mounted)
    IN /\ Accepts(OnloadCallback(r.n))
       /\ r \in readers
       /\ readers' = readers \ {r}
       /\ sourceImg' = loaded.sourceImg
       /\ resizedImg' = loaded.resizedImg
       /\ previewSrc' = shown.src
       /\ IF shown.panics \/ panics
          THEN /\ pc' = "panicked"
               /\ buf' = shown.buf
               /\ UNCHANGED <<out, targetSrc>>
          ELSE /\ out' = img
               /\ targetSrc' = rendered.src
               /\ buf' = rendered.buf
               /\ pc' = IF rendered.panics THEN "panicked" ELSE pc
       /\ lastOp' = Op("onload", "", r.n, r.result)
       /\ UNCHANGED <<cnt, transformations, listeners, nUploads, chosen, sliders,
                      status, mounted>>

\* A faulty variant: the id is built from a counter that is never incremented.
TransformationIdStaleCounter(selected, count) == selected \o Itoa(0)

\* The Id of a new Transformation: the <option> id followed by the counter.
TransformationId(selected, count) == selected \o Itoa(count)

\* AddEffectCallback, for the selected <option>.  Once the markup of the app
\* is removed, getElementById("effectSelector") gives null and the Get on it
\* panics, after the counter has been incremented.
AddEffectCallback(selected) ==
    LET eff == [Name |-> selected, Min |-> EffectMin, Max |-> EffectMax]
        t == [Name |-> eff.Name, Min |-> eff.Min, Max |-> eff.Max,
              Id |-> TransformationId(selected, cnt + 1),
              Values |-> <<DefaultValue>>,
              Fn |-> eff.Name]
    IN /\ Accepts("AddEffectCallback")
       /\ cnt < MaxEffects
       /\ cnt' = cnt + 1
       /\ IF mounted
          THEN /\ transformations' = AppAppend(transformations, t)
               /\ sliders' = Append(sliders, Render(t))
               /\ lastOp' = Op("addEffect", t.Id, 0, selected)
               /\ UNCHANGED pc
          ELSE /\ pc' = "panicked"
               /\ lastOp' = Op("addEffect", "", 0, "")
               /\ UNCHANGED <<transformations, sliders>>
       /\ UNCHANGED <<sourceImg, resizedImg, buf, out, listeners, readers,
                      nUploads, chosen, previewSrc, targetSrc, status, mounted>>

\* ChangeEffectsCallback, for the slider with this id moved to this value.
ChangeEffectsCallback(id, value) ==
    LET ts == AppUpdate(transformations, id, <<value>>)
        panics == PreviewPanics(resizedImg, ts)
        img == PreviewImg(resizedImg, ts)
        rendered == UpdateImgSrcById(targetSrc, buf, img, mounted)
    IN /\ Accepts("ChangeEffectsCallback")
       /\ transformations' = ts
       /\ IF panics
          THEN /\ pc' = "panicked"
               /\ UNCHANGED <<out, targetSrc, buf>>
          ELSE /\ out' = img
               /\ targetSrc' = rendered.src
               /\ buf' = rendered.buf
               /\ pc' = IF rendered.panics THEN "panicked" ELSE pc
       /\ lastOp' = Op("change", id, value, "")
       /\ UNCHANGED <<cnt, sourceImg, resizedImg, listeners, readers, nUploads, chosen,
                      previewSrc, sliders, status, mounted>>

\* ShutdownCallback: the button is disabled, the status set, the markup of
\* the app (the file input, the two images, the sliders) removed, and a value
\* sent on jsa.done.  The first send wakes main, which waits in its select;
\* a second one finds no receiver and blocks the callback goroutine.
ShutdownCallback ==
    /\ Accepts("ShutdownCallback")
    /\ status' = "go wasm app is closed"
    /\ mounted' = FALSE
    /\ sliders' = <<>>
    /\ chosen' = ""
    /\ previewSrc' = NoSrc
    /\ targetSrc' = NoSrc
    /\ pc' = IF pc = "running" THEN "closing" ELSE "blocked"
    /\ lastOp' = Op("shutdown", "", 0, "")
    /\ UNCHANGED <<cnt, sourceImg, resizedImg, transformations, buf, out,
                   listeners, readers, nUploads>>

\* main after <-jsa.done, once the callback goroutine has no event left to
\* serve or is blocked: JsApp.Release closes the four callbacks stored in the
\* JsApp, then main returns and the program ends.
Release ==
    /\ pc \in {"closing", "blocked"}
    /\ listeners' = listeners \ Callbacks
    /\ pc' = "exited"
    /\ lastOp' = Op("release", "", 0, "")
    /\ UNCHANGED <<cnt, sourceImg, resizedImg, transformations, buf, out,
                   readers, nUploads, chosen, previewSrc, targetSrc, sliders, status, mounted>>

\* The ids of the range inputs a change event can come from: the sliders in
\* the document, or, for an event queued before the markup was removed, the
\* sliders that were in it (one for every transformation).
SliderIds ==
    IF mounted THEN { sliders[i].id : i \in 1..Len(sliders) }
    ELSE { transformations[i].Id : i \in 1..Len(transformations) }

Next ==
    \/ \E file \in Files : UploadCallback(file)
    \/ \E r \in readers : OnLoad(r)
    \/ \E selected \in SelectorOptions : AddEffectCallback(selected)
    \/ \E id \in SliderIds : \E value \in SliderValues : ChangeEffectsCallback(id, value)
    \/ ShutdownCallback
    \/ Release

Spec == Init /\ [][Next]_vars

(***************************************************************************)
(* SpecApp: the exported methods of App called directly.                   *)
(***************************************************************************)
\* The kinds Append is called with: two registered ones and one that is not.
AppendKinds == {"contrast", "brightness", "sepia"}

\* The ids Update is called with: ids Append gives, and one it never gives.
UpdateIds == {"contrast1", "sepia1", "missing9"}

\* The values Update is called with: inside and outside EffectMin..EffectMax.
UpdateValues == {EffectMin - 1, 1, EffectMax + 1}

\* app.Append(t), t built the way AddEffectCallback builds it.
CallAppend(kind) ==
    LET t == [Name |-> kind, Min |-> EffectMin, Max |-> EffectMax,
              Id |-> TransformationId(kind, 1),
              Values |-> <<DefaultValue>>,
              Fn |-> kind]
    IN /\ ProgramAlive
       /\ Len(transformations) < MaxEffects
       /\ transformations' = AppAppend(transformations, t)
       /\ lastOp' = Op("Append", t.Id, 0, kind)
       /\ UNCHANGED <<pc, cnt, sourceImg, resizedImg, buf, out, listeners, readers,
                      nUploads, chosen, previewSrc, targetSrc, sliders, status, mounted>>

\* app.Update(id, value)
CallUpdate(id, value) ==
    /\ ProgramAlive
    /\ transformations' = AppUpdate(transformations, id, <<value>>)
    /\ lastOp' = Op("Update", id, value, "")
    /\ UNCHANGED <<pc, cnt, sourceImg, resizedImg, buf, out, listeners, readers,
                   nUploads, chosen, previewSrc, targetSrc, sliders, status, mounted>>

\* app.NewSourceImgFromString(simg)
CallNewSourceImgFromString(simg) ==
    LET loaded == NewSourceImgFromString(sourceImg, resizedImg, simg)
    IN /\ ProgramAlive
       /\ sourceImg' = loaded.sourceImg
       /\ resizedImg' = loaded.resizedImg
       /\ lastOp' = Op("NewSourceImgFromString", "", 0, simg)
       /\ UNCHANGED <<pc, cnt, transformations, buf, out, listeners, readers,
                      nUploads, chosen, previewSrc, targetSrc, sliders, status, mounted>>

\* app.PreviewImg()
CallPreviewImg ==
    /\ ProgramAlive
    /\ IF PreviewPanics(resizedImg, transformations)
       THEN pc' = "panicked" /\ UNCHANGED out
       ELSE out' = PreviewImg(resizedImg, transformations) /\ UNCHANGED pc
    /\ lastOp' = Op("PreviewImg", "", 0, "")
    /\ UNCHANGED <<cnt, sourceImg, resizedImg, transformations, buf, listeners, readers,
                   nUploads, chosen, previewSrc, targetSrc, sliders, status, mounted>>

\* jsa.UpdateImgSrcById("targetImg", jsa.PreviewImg()): one render.
CallUpdateImgSrcById ==
    LET panics == PreviewPanics(resizedImg, transformations)
        img == PreviewImg(resizedImg, transformations)
        rendered == UpdateImgSrcById(targetSrc, buf, img, mounted)
    IN /\ ProgramAlive
       /\ IF panics
          THEN /\ pc' = "panicked"
               /\ UNCHANGED <<out, targetSrc, buf>>
          ELSE /\ out' = img
               /\ targetSrc' = rendered.src
               /\ buf' = rendered.buf
               /\ pc' = IF rendered.panics THEN "panicked" ELSE pc
       /\ lastOp' = Op("UpdateImgSrcById", "targetImg", 0, "")
       /\ UNCHANGED <<cnt, sourceImg, resizedImg, transformations, listeners, readers,
                      nUploads, chosen, previewSrc, sliders, status, mounted>>

NextApp ==
    \/ \E kind \in AppendKinds : CallAppend(kind)
    \/ \E id \in UpdateIds : \E value \in UpdateValues : CallUpdate(id, value)
    \/ \E simg \in Files : CallNewSourceImgFromString(simg)
    \/ CallPreviewImg
    \/ CallUpdateImgSrcById

SpecApp == Init /\ [][NextApp]_vars

(***************************************************************************)
(* Properties.                                                             *)
(***************************************************************************)
Ids(ts) == { ts[i].Id : i \in 1..Len(ts) }

\* The image a value-carrying instance of a kind makes of an image, by the
\* library function of that kind.
EffectOf(t, img) ==
    CASE t.Name = "contrast"       -> Contrast(img, t.Values[1])
      [] t.Name = "brightness"     -> Brightness(img, t.Values[1])
      [] t.Name = "edge-detection" -> EdgeDetection(img, t.Values[1])

\* en(...e2(e1(img))) for the pipeline <<e1, ..., en>>.
RECURSIVE Composed(_, _)
Composed(ts, img) ==
    IF ts = <<>> THEN img
    ELSE EffectOf(ts[Len(ts)], Composed(SubSeq(ts, 1, Len(ts) - 1), img))

\* The src an <image> shows for an image encoded on its own.
SrcOf(img) == DataURL(<<JPEGEncode(img)>>)

\* The texts that follow the prefix in the data URLs of the model.
Payloads == {"A", "C", "!"}

\* The data URL is one of the two accepted prefixes followed by a payload.
Recognized(simg) ==
    \E t \in Payloads : simg = jpegPrefix \o t \/ simg = pngPrefix \o t

\* The data URL has an accepted prefix and a payload that is no image.
Undecodable(simg) ==
    \E t \in Payloads :
        /\ simg = jpegPrefix \o t \/ simg = pngPrefix \o t
        /\ Decode(t).err

\* The session is Closed: the shutdown event has been handled.
Closed == ~mounted

\* C1: every instance in the pipeline holds a value inside its kind's range
\* [Min, Max]; an update with a value outside the range stores the clamped
\* value.
C1_ValuesInRange ==
    \A i \in 1..Len(transformations) :
        \A j \in 1..Len(transformations[i].Values) :
            /\ transformations[i].Min <= transformations[i].Values[j]
            /\ transformations[i].Values[j] <= transformations[i].Max

\* C2: no two instances of the pipeline share an id: every add-effect event
\* issues an id different from every id issued before it, the counter never
\* being behind the number of ids issued.
C2_UniqueIds ==
    /\ \A i, j \in 1..Len(transformations) :
          i # j => transformations[i].Id # transformations[j].Id
    /\ Len(transformations) <= cnt
    /\ \A i \in 1..Len(transformations) :
          \E n \in 1..cnt : transformations[i].Id = transformations[i].Name \o Itoa(n)

\* C2 witness: two instances of the same kind were added.
C2_Witness ==
    /\ Len(transformations) >= 2
    /\ transformations[1].Name = transformations[2].Name
    /\ lastOp.op = "addEffect"

\* C3: a load with a recognized prefix whose bytes do not decode leaves the
\* original and the preview exactly as they were.
C3_LoadAllOrNothing ==
    [][ (lastOp'.op = "onload" /\ Undecodable(lastOp'.arg))
        => (sourceImg' = sourceImg /\ resizedImg' = resizedImg) ]_vars

\* C4: after every handler that changes the image or the pipeline (onload,
\* add-effect, slider change) has run, the output pane shows the current
\* pipeline applied to the current preview.
C4_OutputFollowsInputs ==
    ( /\ pc = "running"
      /\ lastOp.op \in {"onload", "addEffect", "change"}
      /\ resizedImg # NoImage )
    => targetSrc = SrcOf(Composed(transformations, resizedImg))

\* C5: a render applies the instances in insertion order, each to the result
\* of the one before, starting from the preview: en(...e2(e1(preview))).
C5_InsertionOrder ==
    ( /\ pc = "running"
      /\ lastOp.op \in {"onload", "change"}
      /\ resizedImg # NoImage )
    => /\ out = Composed(transformations, resizedImg)
       /\ targetSrc = SrcOf(out)

\* C5 witness: contrast was added before brightness, both were moved, and the
\* render is brightness(contrast(preview)).
C5_Witness ==
    /\ pc = "running"
    /\ lastOp.op = "change"
    /\ resizedImg # NoImage
    /\ Len(transformations) = 2
    /\ transformations[1].Name = "contrast"
    /\ transformations[2].Name = "brightness"
    /\ transformations[1].Values # transformations[2].Values
    /\ out = Brightness(Contrast(resizedImg, transformations[1].Values[1]),
                        transformations[2].Values[1])
    /\ out # Contrast(Brightness(resizedImg, transformations[2].Values[1]),
                      transformations[1].Values[1])

\* C6: appending an instance whose kind is not registered fails and leaves
\* the pipeline length unchanged.
C6_UnknownKindRejected ==
    [][ (lastOp'.op = "Append" /\ lastOp'.arg \notin SelectorOptions)
        => Len(transformations') = Len(transformations) ]_vars

\* C7: Closed is terminal: once the shutdown event has been handled no later
\* event changes the image source, the pipeline or the displayed output, and
\* the session stays Closed.
C7_ClosedIsTerminal ==
    [][ Closed => /\ Closed'
                  /\ UNCHANGED <<sourceImg, resizedImg, transformations,
                                 previewSrc, targetSrc>> ]_vars

\* C8: an update whose id matches no instance does not fail and leaves the
\* whole pipeline unchanged.
C8_UpdateAbsentIdNoOp ==
    [][ (lastOp'.op = "Update" /\ lastOp'.id \notin Ids(transformations))
        => (transformations' = transformations /\ pc' = pc) ]_vars

\* C8 witness: an update with an absent id was made on a pipeline that is not
\* empty.
C8_Witness ==
    /\ lastOp.op = "Update"
    /\ lastOp.id \notin Ids(transformations)
    /\ transformations # <<>>
    /\ pc = "running"

\* C9: loading a string that starts with neither the JPEG nor the PNG prefix
\* leaves the original and the preview unchanged.
C9_UnrecognizedPrefixNoChange ==
    [][ (lastOp'.op = "onload" /\ ~Recognized(lastOp'.arg))
        => (sourceImg' = sourceImg /\ resizedImg' = resizedImg) ]_vars

\* C9 witness: a GIF data URL was loaded over an existing image.
C9_Witness ==
    /\ lastOp.op = "onload"
    /\ lastOp.arg = "data:image/gif;base64,A"
    /\ ~Recognized(lastOp.arg)
    /\ sourceImg # NoImage
    /\ resizedImg # NoImage

\* C10: with an empty pipeline a render returns the preview itself, for
\* every loaded image.
C10_EmptyPipelineIdentity ==
    ( /\ pc = "running"
      /\ lastOp.op \in {"onload", "change"}
      /\ transformations = <<>> )
    => /\ out = resizedImg
       /\ resizedImg # NoImage => targetSrc = previewSrc

\* C10 witness: an image was loaded and rendered with an empty pipeline.
C10_Witness ==
    /\ lastOp.op = "onload"
    /\ transformations = <<>>
    /\ resizedImg # NoImage
    /\ out = resizedImg
    /\ targetSrc = SrcOf(resizedImg)

\* The text after the accepted prefix of a data URL that decodes to an image.
Decodable(simg, t) ==
    /\ t \in Payloads
    /\ simg = jpegPrefix \o t \/ simg = pngPrefix \o t
    /\ ~Decode(t).err

\* ceil(width * h / w) in whole numbers.
ExactCeilHeight(w, h, width) == (width * h + w - 1) \div w

\* C11: after every successful load of a w x h source (w, h > 0) the preview
\* is 200 wide and ceil(200 * h / w) high, for every load of the session.
C11_PreviewSize ==
    ( /\ lastOp.op = "onload"
      /\ \E t \in Payloads : Decodable(lastOp.arg, t) )
    => /\ sourceImg.w > 0 /\ sourceImg.h > 0
       /\ resizedImg.w = 200
       /\ resizedImg.h = ExactCeilHeight(sourceImg.w, sourceImg.h, 200)

\* C12: once the shutdown event has been handled and main has run the
\* teardown, no callback the session created is left unreleased, the onload
\* callbacks of the uploads included.
C12_ShutdownReleasesListeners ==
    pc = "exited" => listeners = {}

\* C13: a render is a function of the pipeline and the preview alone: it
\* leaves the pipeline, the image source and the id counter as they were,
\* starts from and ends with an empty encode buffer, and shows the encoding of
\* the pipeline applied to the preview, so that a second render of the same
\* pipeline and preview shows what the first one showed.
C13_RenderDeterministic ==
    [][ lastOp'.op = "UpdateImgSrcById"
        => /\ transformations' = transformations
           /\ sourceImg' = sourceImg
           /\ resizedImg' = resizedImg
           /\ cnt' = cnt
           /\ buf = <<>>
           /\ buf' = <<>>
           /\ (pc' = "running" /\ resizedImg # NoImage)
              => /\ out' = Composed(transformations, resizedImg)
                 /\ targetSrc' = SrcOf(out')
                 /\ targetSrc = SrcOf(Composed(transformations, resizedImg))
                    => targetSrc' = targetSrc ]_vars

\* C13 witness: a pipeline of two instances with a changed value was rendered
\* over a loaded preview.
C13_Witness ==
    /\ lastOp.op = "UpdateImgSrcById"
    /\ pc = "running"
    /\ resizedImg # NoImage
    /\ Len(transformations) = 2
    /\ transformations[1].Values # <<DefaultValue>>
    /\ targetSrc = SrcOf(out)
    /\ out # resizedImg
    /\ buf = <<>>

\* C14: a slider change for an id present in the pipeline replaces the value
\* of the instance with that id and nothing else: the length and the order of
\* the pipeline, every instance's id, kind and range, and the value of every
\* other instance stay as they were.
C14_UpdateTouchesOneValue ==
    [][ (lastOp'.op = "change" /\ lastOp'.id \in Ids(transformations))
        => /\ Len(transformations') = Len(transformations)
           /\ \A i \in 1..Len(transformations) :
                 /\ transformations'[i].Id = transformations[i].Id
                 /\ transformations'[i].Name = transformations[i].Name
                 /\ transformations'[i].Fn = transformations[i].Fn
                 /\ transformations'[i].Min = transformations[i].Min
                 /\ transformations'[i].Max = transformations[i].Max
                 /\ transformations[i].Id # lastOp'.id
                    => transformations'[i].Values = transformations[i].Values
                 /\ transformations[i].Id = lastOp'.id
                    => transformations'[i].Values = <<lastOp'.value>> ]_vars

\* C14 witness: of two instances of one kind, the slider of one was moved and
\* the other still holds its default value.
C14_Witness ==
    /\ lastOp.op = "change"
    /\ \E i, j \in 1..Len(transformations) :
          /\ i # j
          /\ transformations[i].Name = transformations[j].Name
          /\ transformations[i].Id = lastOp.id
          /\ transformations[i].Values = <<lastOp.value>>
          /\ transformations[j].Values = <<DefaultValue>>
          /\ lastOp.value # DefaultValue

\* C15: the pipeline is append-only: no event shortens it, no event moves or
\* renames an instance already in it, no event but add-effect lengthens it,
\* and every add-effect event of the open session lengthens it by exactly one
\* instance, the new one, at the end.
C15_AppendOnly ==
    [][ /\ Len(transformations') >= Len(transformations)
        /\ \A i \in 1..Len(transformations) :
              /\ transformations'[i].Id = transformations[i].Id
              /\ transformations'[i].Name = transformations[i].Name
        /\ (lastOp'.op = "addEffect" /\ ~Closed)
           => /\ Len(transformations') = Len(transformations) + 1
              /\ transformations'[Len(transformations')].Id = lastOp'.id
              /\ transformations'[Len(transformations')].Name = lastOp'.arg
        /\ lastOp'.op # "addEffect"
           => Len(transformations') = Len(transformations) ]_vars

\* C15 witness: an instance of another kind was added behind an instance
\* whose slider had been moved, and the program was then shut down.
C15_Witness ==
    /\ pc = "exited"
    /\ cnt = 2
    /\ Len(transformations) = 2
    /\ transformations[1].Name # transformations[2].Name
    /\ transformations[1].Id = transformations[1].Name \o "1"
    /\ transformations[2].Id = transformations[2].Name \o "2"
    /\ transformations[1].Values # <<DefaultValue>>

\* C16: PreviewImg never hands a missing base image to an effect function and
\* never calls a nil effect function: whenever a handler has called PreviewImg
\* (onload, slider change), a preview was loaded or the pipeline was empty,
\* and every instance of the pipeline has an effect function.
C16_RenderHasBaseImage ==
    /\ lastOp.op \in {"onload", "change"}
       => (resizedImg # NoImage \/ transformations = <<>>)
    /\ \A i \in 1..Len(transformations) : transformations[i].Name \in SelectorOptions

\* C17: a load, successful or not, leaves the pipeline and the id counter as
\* they were; after a successful load in the open session the preview pane
\* shows the new preview and the output pane the unchanged pipeline applied
\* to it.
C17_LoadKeepsPipeline ==
    [][ lastOp'.op = "onload"
        => /\ transformations' = transformations
           /\ cnt' = cnt
           /\ \A t \in Payloads :
                 (Decodable(lastOp'.arg, t) /\ ~Closed)
                 => /\ pc' = "running"
                    /\ resizedImg'.base = t
                    /\ previewSrc' = SrcOf(resizedImg')
                    /\ out' = Composed(transformations, resizedImg')
                    /\ targetSrc' = SrcOf(out') ]_vars

\* C17 witness: a second file was loaded under a pipeline of two instances,
\* one with a moved slider, and the output pane shows both effects on it.
C17_Witness ==
    /\ lastOp.op = "onload"
    /\ pc = "running"
    /\ lastOp.value = 2
    /\ \E t \in Payloads : Decodable(lastOp.arg, t) /\ resizedImg.base = t
    /\ cnt = 2
    /\ Len(transformations) = 2
    /\ transformations[1].Values # <<DefaultValue>>
    /\ Len(out.ops) = 3
    /\ targetSrc = SrcOf(out)
    /\ targetSrc # previewSrc

\* The image an <image> element shows was computed from the file with this
\* payload.
Shows(src, t) == src # NoSrc /\ src.data[1].img.base = t

\* C18: once every file read that was started has completed, the original,
\* the preview and both panes are those of the file chosen last, in whatever
\* order the reads completed.
C18_LatestFileShown ==
    ( /\ pc = "running"
      /\ nUploads > 0
      /\ readers = {} )
    => \A t \in Payloads :
          Decodable(chosen, t)
          => /\ sourceImg.base = t
             /\ resizedImg.base = t
             /\ Shows(previewSrc, t)
             /\ Shows(targetSrc, t)

====
